---- MODULE Spec2Model ----
(***************************************************************************)
(* Model of asana-field-migration/asana-field-migrator.js: a sequential    *)
(* batch job that loads an old_value -> new_value table from a CSV file,   *)
(* fetches every task of a project page by page, and for each task whose   *)
(* old custom field holds a mapped value PUTs the mapped value into the    *)
(* new custom field.                                                       *)
(*                                                                         *)
(* JavaScript values are modelled as strings.  The strings in angle        *)
(* brackets stand for the values that are not identifiers:                 *)
(*   "<undefined>"         undefined                                       *)
(*   "<null>"              null (a missing enum_value, a cleared url)      *)
(*   "<function>"          a function object (Object.prototype.constructor)*)
(*   "<Object.prototype>"  the object Object.prototype                     *)
(*   "<none>"              a page response without next_page               *)
(*   "<first>"             the first url, which has no offset parameter    *)
(***************************************************************************)
EXTENDS Integers, Sequences, FiniteSets, TLC

(***************************************************************************)
(* Bounds of the model.                                                    *)
(***************************************************************************)
MaxRows == 2
MaxPages == 2
MaxTasks == 2

Undefined == "<undefined>"
Null == "<null>"
FunctionValue == "<function>"
ObjectPrototype == "<Object.prototype>"
NoNextPage == "<none>"
FirstUrl == "<first>"

(***************************************************************************)
(* The state.  absent is the set of configuration variables missing from   *)
(* the environment; records holds the parsed rows of the CSV file while    *)
(* loadMapping runs; pageLog and putLog record the GET and PUT requests    *)
(* sent and their responses; pauses counts the pauses taken; the others    *)
(* are the program's variables of the same names (fetched is the tasks     *)
(* of getAllProjectTasks, i the position of main's loop).                  *)
(***************************************************************************)
VARIABLES absent, records, pc, mapping, url, pageCount, fetched, pageLog,
          oldFieldFoundCount, oldFieldWithValueCount, warned, tasks, i,
          tasksAttempted, tasksUpdated, putLog, pauses

vars == <<absent, records, pc, mapping, url, pageCount, fetched, pageLog,
          oldFieldFoundCount, oldFieldWithValueCount, warned, tasks, i,
          tasksAttempted, tasksUpdated, putLog, pauses>>

(***************************************************************************)
(* Configuration (lines 8-12): process.env yields undefined for a variable *)
(* that is not set.  OldField and NewField are the identifiers the two     *)
(* custom fields have in the remote system.                                *)
(***************************************************************************)
ConfigNames == {"ASANA_TOKEN", "ASANA_PROJECT_GID", "OLD_FIELD_GID", "NEW_FIELD_GID", "CSV_MAPPING_FILE"}
OldField == "old"
NewField == "new"
OLD_FIELD_GID == IF "OLD_FIELD_GID" \in absent THEN Undefined ELSE OldField
NEW_FIELD_GID == IF "NEW_FIELD_GID" \in absent THEN Undefined ELSE NewField

\* JavaScript truthiness of the values the program tests with if (...) / !x.
Truthy(v) == v \notin {Undefined, Null, ""}

SeqsUpTo(S, n) == UNION {[1..k -> S] : k \in 0..n}

(***************************************************************************)
(* Inputs: the CSV file.                                                   *)
(***************************************************************************)
RowOldValues == {"101", "constructor", "__proto__"}
RowNewValues == {"201", "202", ""}
Rows == [old_value : RowOldValues, new_value : RowNewValues]
RowSeqs == SeqsUpTo(Rows, MaxRows)

(***************************************************************************)
(* Inputs: the tasks the remote may serve.                                 *)
(***************************************************************************)
Field(gid, enum) == [gid |-> gid, enum_gid |-> enum]
Task(gid, has, fields) == [gid |-> gid, has_custom_fields |-> has, custom_fields |-> fields]

TaskA == Task("A", TRUE, <<Field(OldField, "101")>>)
TaskB == Task("B", TRUE, <<Field(NewField, "101")>>)
TaskC == Task("C", TRUE, <<Field(OldField, Null)>>)
TaskD == Task("D", TRUE, <<Field(OldField, "999")>>)
TaskE == Task("E", FALSE, <<>>)
TaskF == Task("F", TRUE, <<>>)
TaskG == Task("G", TRUE, <<Field(NewField, Null), Field(OldField, "constructor")>>)
TaskH == Task("H", TRUE, <<Field(OldField, Null), Field(OldField, "101")>>)
TaskI == Task("I", TRUE, <<Field(OldField, "101"), Field(OldField, "constructor")>>)
TaskPool == {TaskA, TaskB, TaskC, TaskD, TaskE, TaskF, TaskG, TaskH, TaskI}

Cursors == {"x", "y"}
HttpStatuses == {"ok", "fail", "reject"}


(***************************************************************************)
(* loadMapping (lines 17-25).  mapping is a plain object: its own          *)
(* properties are a function from keys to values; a read of a key that is  *)
(* not an own property falls through to Object.prototype.                  *)
(***************************************************************************)
EmptyObject == [k \in {} |-> ""]

\* mapping[key] = value on a plain object: assigning a string to __proto__
\* runs the inherited setter, which ignores non-object values.
SetProperty(obj, key, value) ==
  IF key = "__proto__" THEN obj
  ELSE [k \in (DOMAIN obj) \cup {key} |-> IF k = key THEN value ELSE obj[k]]

ObjectPrototypeKeys == {"constructor", "toString", "valueOf", "hasOwnProperty", "__proto__"}

\* obj[key] on a plain object.
GetProperty(obj, key) ==
  IF key \in DOMAIN obj THEN obj[key]
  ELSE IF key = "__proto__" THEN ObjectPrototype
  ELSE IF key \in ObjectPrototypeKeys THEN FunctionValue
  ELSE Undefined

RECURSIVE loadMapping(_)
loadMapping(rows) ==
  IF rows = <<>> THEN EmptyObject
  ELSE LET n == Len(rows)
           row == rows[n]
       IN SetProperty(loadMapping(SubSeq(rows, 1, n - 1)), row.old_value, row.new_value)

Init ==
  /\ absent = {}
  /\ records = <<>>
  /\ pc = "load"
  /\ mapping = EmptyObject
  /\ url = Null
  /\ pageCount = 0
  /\ fetched = <<>>
  /\ pageLog = <<>>
  /\ oldFieldFoundCount = 0
  /\ oldFieldWithValueCount = 0
  /\ warned = FALSE
  /\ tasks = <<>>
  /\ i = 1
  /\ tasksAttempted = 0
  /\ tasksUpdated = 0
  /\ putLog = <<>>
  /\ pauses = 0

\* main, line 141, then lines 31-38: the file is read and parsed, the
\* mapping is built and returned (the rows do not outlive the call), and
\* the fetcher is entered with the first url.  readFile(undefined) throws.
MainLoadMapping ==
  /\ pc = "load"
  /\ "CSV_MAPPING_FILE" \notin absent
  /\ \E rows \in RowSeqs :
       /\ mapping' = loadMapping(rows)
       /\ url' = FirstUrl
       /\ pc' = "fetch"
  /\ UNCHANGED <<absent, records, pageCount, fetched, pageLog, oldFieldFoundCount,
                 oldFieldWithValueCount, warned, tasks, i, tasksAttempted,
                 tasksUpdated, putLog, pauses>>

\* main, line 141 and 209-211: readFile or parse throws, main catches.
MainLoadMappingThrows ==
  /\ pc = "load"
  /\ pc' = "caught"
  /\ UNCHANGED <<absent, records, mapping, url, pageCount, fetched, pageLog, oldFieldFoundCount,
                 oldFieldWithValueCount, warned, tasks, i, tasksAttempted,
                 tasksUpdated, putLog, pauses>>

(***************************************************************************)
(* getAllProjectTasks (lines 30-105).                                      *)
(***************************************************************************)
PageResponse(status, data, next_offset) ==
  [status |-> status, data |-> data, next_offset |-> next_offset]

\* Lines 59-66: the url of the next request, or null when the response has
\* no next_page or no offset in it.
NextUrlWithoutOffset(next_offset) ==
  IF next_offset # NoNextPage /\ Truthy(next_offset) THEN FirstUrl ELSE Null

NextUrl(next_offset) ==
  IF next_offset # NoNextPage /\ Truthy(next_offset) THEN next_offset ELSE Null

\* Line 57: tasks = tasks.concat(data.data).
ConcatPrepends(list, data) == data \o list
Concat(list, data) == list \o data

\* Lines 40-45: while (url) { await fetch(url, ...) }.
FetchSendRequest ==
  /\ pc = "fetch"
  /\ Truthy(url)
  /\ pageLog' = Append(pageLog, [offset |-> url, response |-> PageResponse("pending", <<>>, NoNextPage)])
  /\ pc' = "await_page"
  /\ UNCHANGED <<absent, records, mapping, url, pageCount, fetched, oldFieldFoundCount,
                 oldFieldWithValueCount, warned, tasks, i, tasksAttempted,
                 tasksUpdated, putLog, pauses>>

\* Lines 53-66: a success response is parsed, counted, appended, and the
\* next url is prepared.  The remote stops handing out cursors at MaxPages
\* and serves at most MaxTasks tasks in all.
FetchReceivePage ==
  /\ pc = "await_page"
  /\ \E data \in SeqsUpTo(TaskPool, MaxTasks - Len(fetched)),
        next_offset \in Cursors \cup {NoNextPage} :
       /\ next_offset \in Cursors => pageCount + 1 < MaxPages
       /\ pageLog' = [pageLog EXCEPT ![Len(pageLog)].response = PageResponse("ok", data, next_offset)]
       /\ pageCount' = pageCount + 1
       /\ fetched' = Concat(fetched, data)
       /\ url' = NextUrl(next_offset)
  /\ pc' = "fetch"
  /\ UNCHANGED <<absent, records, mapping, oldFieldFoundCount, oldFieldWithValueCount, warned,
                 tasks, i, tasksAttempted, tasksUpdated, putLog, pauses>>

\* A fetcher that logs the error and leaves its loop with what it has.
FetchErrorReturnsPartial ==
  /\ pc = "await_page"
  /\ \E status \in HttpStatuses \ {"ok"} :
       pageLog' = [pageLog EXCEPT ![Len(pageLog)].response = [status |-> status, data |-> <<>>, next_offset |-> NoNextPage]]
  /\ url' = Null
  /\ pc' = "fetch"
  /\ UNCHANGED <<absent, records, mapping, pageCount, fetched, oldFieldFoundCount,
                 oldFieldWithValueCount, warned, tasks, i, tasksAttempted,
                 tasksUpdated, putLog, pauses>>

\* Lines 41-51 and 209-211: fetch rejects, or the response is not ok and
\* the fetcher throws; the error propagates through main's await to its
\* catch.  Nothing is returned to main.
FetchThrows ==
  /\ pc = "await_page"
  /\ \E status \in HttpStatuses \ {"ok"} :
       pageLog' = [pageLog EXCEPT ![Len(pageLog)].response = PageResponse(status, <<>>, NoNextPage)]
  /\ pc' = "caught"
  /\ UNCHANGED <<absent, records, mapping, url, pageCount, fetched, oldFieldFoundCount,
                 oldFieldWithValueCount, warned, tasks, i, tasksAttempted,
                 tasksUpdated, putLog, pauses>>

\* Line 81: custom_fields.find(f => f.gid === OLD_FIELD_GID), as the index
\* of the first such entry, 0 when there is none.
FindOldField(custom_fields) ==
  LET hits == {k \in 1..Len(custom_fields) : custom_fields[k].gid = OLD_FIELD_GID}
  IN IF hits = {} THEN 0 ELSE CHOOSE k \in hits : \A h \in hits : k <= h

\* Lines 79-83: the task is counted as having the old field.
HasOldField(task) ==
  /\ task.has_custom_fields
  /\ Len(task.custom_fields) > 0
  /\ FindOldField(task.custom_fields) # 0

\* Lines 85-87: the task is counted as having the old field set.
HasOldFieldValue(task) ==
  /\ HasOldField(task)
  /\ Truthy(task.custom_fields[FindOldField(task.custom_fields)].enum_gid)

\* Lines 74-93: the two counters after the statistics loop.
CountOldFieldFound(list) == Cardinality({k \in 1..Len(list) : HasOldField(list[k])})
CountOldFieldWithValue(list) == Cardinality({k \in 1..Len(list) : HasOldFieldValue(list[k])})

\* Lines 69-104 and 144-148: the loop has ended; the coverage statistics
\* are computed, the warning is emitted when no task has the old field
\* set, and the list is returned to main, which starts its loop.  The frame
\* of the call (url, pageCount, tasks, and the record of its requests) is
\* dropped.
FetchReturn ==
  /\ pc = "fetch"
  /\ ~Truthy(url)
  /\ oldFieldFoundCount' = CountOldFieldFound(fetched)
  /\ oldFieldWithValueCount' = CountOldFieldWithValue(fetched)
  /\ warned' = (CountOldFieldWithValue(fetched) = 0)
  /\ tasks' = fetched
  /\ fetched' = <<>>
  /\ pageLog' = <<>>
  /\ pageCount' = 0
  /\ i' = 1
  /\ tasksAttempted' = 0
  /\ tasksUpdated' = 0
  /\ pc' = "loop"
  /\ UNCHANGED <<absent, records, mapping, url, putLog, pauses>>

(***************************************************************************)
(* updateTaskCustomField (lines 110-134).                                  *)
(***************************************************************************)
\* Lines 111-117: the custom_fields object of the body, as a set of
\* <<key, value>> properties.
RequestBody(newValue) == {<<NEW_FIELD_GID, newValue>>}

\* Line 125: JSON.stringify omits properties whose value is a function or
\* undefined, and writes Object.prototype as {}.
JSONStringify(properties) ==
  {<<p[1], IF p[2] = ObjectPrototype THEN "{}" ELSE p[2]>> :
     p \in {q \in properties : q[2] \notin {FunctionValue, Undefined}}}

\* Lines 128-134: both branches log and fall off the end of the function.
updateTaskCustomFieldReturnsTrue(status) == "true"
updateTaskCustomField(status) == Undefined

\* Lines 119-126: fetch rejects on a transport error; a response, ok or
\* not, resolves it.
UpdateThrowsUnlessOk(status) == status # "ok"
UpdateThrows(status) == status = "reject"

(***************************************************************************)
(* main (lines 139-212).                                                   *)
(***************************************************************************)
\* Line 156.
NoCustomFields(task) == ~task.has_custom_fields \/ Len(task.custom_fields) = 0

\* Lines 161-176: the loop stops at the first entry of the old field.
RECURSIVE oldEnumGidLastMatch(_)
oldEnumGidLastMatch(customFields) ==
  IF customFields = <<>> THEN Null
  ELSE LET field == Head(customFields)
           rest == oldEnumGidLastMatch(Tail(customFields))
       IN IF field.gid = OLD_FIELD_GID /\ ~Truthy(rest)
          THEN IF Truthy(field.enum_gid) THEN field.enum_gid ELSE Null
          ELSE rest

\* A loop that stops at the first entry of the old field that has a value.
RECURSIVE oldEnumGidSkipsUnset(_)
oldEnumGidSkipsUnset(customFields) ==
  IF customFields = <<>> THEN Null
  ELSE LET field == Head(customFields)
       IN IF field.gid = OLD_FIELD_GID /\ Truthy(field.enum_gid)
          THEN field.enum_gid
          ELSE oldEnumGidSkipsUnset(Tail(customFields))

RECURSIVE oldEnumGid(_)
oldEnumGid(customFields) ==
  IF customFields = <<>> THEN Null
  ELSE LET field == Head(customFields)
       IN IF field.gid = OLD_FIELD_GID
          THEN IF Truthy(field.enum_gid) THEN field.enum_gid ELSE Null
          ELSE oldEnumGid(Tail(customFields))

\* A driver that takes the selected value of the first field, whichever
\* field it is.
newEnumGidAnyField(task, map) ==
  IF NoCustomFields(task) THEN Undefined
  ELSE IF ~Truthy(task.custom_fields[1].enum_gid) THEN Undefined
  ELSE IF Truthy(GetProperty(map, task.custom_fields[1].enum_gid))
       THEN GetProperty(map, task.custom_fields[1].enum_gid)
       ELSE Undefined

\* Lines 156-187: the value the task is to be updated with, undefined when
\* the task is skipped.
newEnumGid(task, map) ==
  IF NoCustomFields(task) THEN Undefined
  ELSE IF ~Truthy(oldEnumGid(task.custom_fields)) THEN Undefined
  ELSE IF Truthy(GetProperty(map, oldEnumGid(task.custom_fields)))
       THEN GetProperty(map, oldEnumGid(task.custom_fields))
       ELSE Undefined

\* A driver that does not move on from a task it skips.
MainSkipTaskStalls ==
  /\ pc = "loop"
  /\ i <= Len(tasks)
  /\ ~Truthy(newEnumGid(tasks[i], mapping))
  /\ UNCHANGED <<absent, records, pc, mapping, url, pageCount, fetched, pageLog, oldFieldFoundCount,
                 oldFieldWithValueCount, warned, tasks, i, tasksAttempted,
                 tasksUpdated, putLog, pauses>>

\* A driver whose pause follows the if/else, so that skipped tasks wait too.
MainSkipTaskPauses ==
  /\ pc = "loop"
  /\ i <= Len(tasks)
  /\ ~Truthy(newEnumGid(tasks[i], mapping))
  /\ i' = i + 1
  /\ pauses' = pauses + 1
  /\ UNCHANGED <<absent, records, pc, mapping, url, pageCount, fetched, pageLog, oldFieldFoundCount,
                 oldFieldWithValueCount, warned, tasks, tasksAttempted,
                 tasksUpdated, putLog>>

\* Lines 150-181 and 203-205: the task is skipped.
MainSkipTask ==
  /\ pc = "loop"
  /\ i <= Len(tasks)
  /\ ~Truthy(newEnumGid(tasks[i], mapping))
  /\ i' = i + 1
  /\ UNCHANGED <<absent, records, pc, mapping, url, pageCount, fetched, pageLog, oldFieldFoundCount,
                 oldFieldWithValueCount, warned, tasks, tasksAttempted,
                 tasksUpdated, putLog, pauses>>

\* Lines 186-192 and 111-126: a mapping is found, the attempt is counted
\* and the PUT request is sent.
MainAttemptUpdate ==
  /\ pc = "loop"
  /\ i <= Len(tasks)
  /\ Truthy(newEnumGid(tasks[i], mapping))
  /\ tasksAttempted' = tasksAttempted + 1
  /\ putLog' = Append(putLog, [index |-> i,
                               taskGid |-> tasks[i].gid,
                               newValue |-> newEnumGid(tasks[i], mapping),
                               custom_fields |-> JSONStringify(RequestBody(newEnumGid(tasks[i], mapping))),
                               status |-> "pending"])
  /\ pc' = "await_update"
  /\ UNCHANGED <<absent, records, mapping, url, pageCount, fetched, pageLog, oldFieldFoundCount,
                 oldFieldWithValueCount, warned, tasks, i, tasksUpdated, pauses>>

\* Lines 128-134 and 192-198: the response arrives, the updater logs and
\* returns, and main counts a success when the returned value is truthy.
\* Lines 119 and 209-211: or fetch rejects and main catches.
MainUpdateResponse ==
  /\ pc = "await_update"
  /\ \E status \in HttpStatuses :
       /\ putLog' = [putLog EXCEPT ![Len(putLog)].status = status]
       /\ IF UpdateThrows(status)
          THEN /\ pc' = "caught"
               /\ UNCHANGED tasksUpdated
          ELSE /\ pc' = "pause"
               /\ tasksUpdated' = IF Truthy(updateTaskCustomField(status))
                                  THEN tasksUpdated + 1 ELSE tasksUpdated
  /\ UNCHANGED <<absent, records, mapping, url, pageCount, fetched, pageLog, oldFieldFoundCount,
                 oldFieldWithValueCount, warned, tasks, i, tasksAttempted, pauses>>

\* A driver that refreshes the task list after each update.
MainPauseRefetches ==
  /\ pc = "pause"
  /\ pauses' = pauses + 1
  /\ url' = FirstUrl
  /\ pc' = "fetch"
  /\ UNCHANGED <<absent, records, mapping, pageCount, fetched, pageLog, oldFieldFoundCount,
                 oldFieldWithValueCount, warned, tasks, i, tasksAttempted,
                 tasksUpdated, putLog>>

\* A driver that takes a failed task again after the pause.
MainPauseRetries ==
  /\ pc = "pause"
  /\ pauses' = pauses + 1
  /\ i' = IF putLog[Len(putLog)].status = "fail" THEN i ELSE i + 1
  /\ pc' = "loop"
  /\ UNCHANGED <<absent, records, mapping, url, pageCount, fetched, pageLog, oldFieldFoundCount,
                 oldFieldWithValueCount, warned, tasks, tasksAttempted,
                 tasksUpdated, putLog>>

\* Line 201: the 200 ms pause, then the next task.
MainPause ==
  /\ pc = "pause"
  /\ pauses' = pauses + 1
  /\ i' = i + 1
  /\ pc' = "loop"
  /\ UNCHANGED <<absent, records, mapping, url, pageCount, fetched, pageLog, oldFieldFoundCount,
                 oldFieldWithValueCount, warned, tasks, tasksAttempted,
                 tasksUpdated, putLog>>

\* Line 208: the loop is over and the counters are logged.
MainDone ==
  /\ pc = "loop"
  /\ i > Len(tasks)
  /\ pc' = "done"
  /\ UNCHANGED <<absent, records, mapping, url, pageCount, fetched, pageLog, oldFieldFoundCount,
                 oldFieldWithValueCount, warned, tasks, i, tasksAttempted,
                 tasksUpdated, putLog, pauses>>

\* Lines 139-212: the status the process ends with.  Node ends with status
\* 1 when an exception or a rejection is left unhandled and with 0
\* otherwise; main's try/catch encloses the whole run and its handler only
\* logs, and nothing sets process.exitCode, so no run ends unhandled.
ExitStatus == IF pc = "unhandled" THEN 1 ELSE 0

(***************************************************************************)
(* loadMapping on its own (lines 17-25): the file is read and parsed into  *)
(* rows, then the mapping is built from the rows.                          *)
(***************************************************************************)
\* Lines 18-19.
LoaderParse ==
  /\ pc = "load"
  /\ records' \in RowSeqs
  /\ pc' = "parsed"
  /\ UNCHANGED <<absent, mapping, url, pageCount, fetched, pageLog, oldFieldFoundCount,
                 oldFieldWithValueCount, warned, tasks, i, tasksAttempted,
                 tasksUpdated, putLog, pauses>>

\* Lines 20-24.
LoaderBuild ==
  /\ pc = "parsed"
  /\ mapping' = loadMapping(records)
  /\ pc' = "loaded"
  /\ UNCHANGED <<absent, records, url, pageCount, fetched, pageLog, oldFieldFoundCount,
                 oldFieldWithValueCount, warned, tasks, i, tasksAttempted,
                 tasksUpdated, putLog, pauses>>

NextLoad ==
  \/ LoaderParse
  \/ LoaderBuild

SpecLoad == Init /\ [][NextLoad]_vars

Next ==
  \/ MainLoadMapping
  \/ MainLoadMappingThrows
  \/ FetchSendRequest
  \/ FetchReceivePage
  \/ FetchThrows
  \/ FetchReturn
  \/ MainSkipTask
  \/ MainAttemptUpdate
  \/ MainUpdateResponse
  \/ MainPause
  \/ MainDone

Spec == Init /\ [][Next]_vars

(***************************************************************************)
(* The run from the call of getAllProjectTasks on (line 144), with the     *)
(* mapping of a file with one row.  The run keeps going: main is one chain *)
(* of awaited steps, each of which is taken once its request is answered   *)
(* or its timer fires.                                                     *)
(***************************************************************************)
RunMappings ==
  {loadMapping(<<[old_value |-> "101", new_value |-> "201"]>>)}

InitRun ==
  /\ absent = {}
  /\ records = <<>>
  /\ pc = "fetch"
  /\ mapping \in RunMappings
  /\ url = FirstUrl
  /\ pageCount = 0
  /\ fetched = <<>>
  /\ pageLog = <<>>
  /\ oldFieldFoundCount = 0
  /\ oldFieldWithValueCount = 0
  /\ warned = FALSE
  /\ tasks = <<>>
  /\ i = 1
  /\ tasksAttempted = 0
  /\ tasksUpdated = 0
  /\ putLog = <<>>
  /\ pauses = 0

NextRun ==
  \/ FetchSendRequest
  \/ FetchReceivePage
  \/ FetchThrows
  \/ FetchReturn
  \/ MainSkipTask
  \/ MainAttemptUpdate
  \/ MainUpdateResponse
  \/ MainPause
  \/ MainDone

SpecRun == InitRun /\ [][NextRun]_vars /\ WF_vars(NextRun)

(***************************************************************************)
(* The run in an environment that lacks some of the configuration.         *)
(***************************************************************************)
InitConfig ==
  /\ absent \in (SUBSET ConfigNames) \ {{}}
  /\ records = <<>>
  /\ pc = "load"
  /\ mapping = EmptyObject
  /\ url = Null
  /\ pageCount = 0
  /\ fetched = <<>>
  /\ pageLog = <<>>
  /\ oldFieldFoundCount = 0
  /\ oldFieldWithValueCount = 0
  /\ warned = FALSE
  /\ tasks = <<>>
  /\ i = 1
  /\ tasksAttempted = 0
  /\ tasksUpdated = 0
  /\ putLog = <<>>
  /\ pauses = 0

SpecConfig == InitConfig /\ [][Next]_vars

(***************************************************************************)
(* Vocabulary of the properties.                                           *)
(***************************************************************************)
\* The old-field entries of a task, by position.
OldEntries(task) ==
  IF task.has_custom_fields
  THEN {k \in 1..Len(task.custom_fields) : task.custom_fields[k].gid = OLD_FIELD_GID}
  ELSE {}

\* The selected value of the task's old field (its first entry), null when
\* the task has no old field or the entry has no selected value.
SelectedValue(task) ==
  IF OldEntries(task) = {} THEN Null
  ELSE task.custom_fields[CHOOSE k \in OldEntries(task) : \A h \in OldEntries(task) : k <= h].enum_gid

\* The old_values of the loaded mapping.
OldValues == DOMAIN mapping

\* The positions in the fetched list whose task has a selected old value
\* that is an old_value of the mapping.
QualifyingTasks == {k \in 1..Len(tasks) : SelectedValue(tasks[k]) \in OldValues}

\* The update requests issued for the task at position k.
RequestsFor(k) == {r \in 1..Len(putLog) : putLog[r].index = k}

RequestsWithStatus(status) == {r \in 1..Len(putLog) : putLog[r].status = status}

\* C1: at the end of a run every task whose old field's selected value is
\* an old_value of the mapping has received exactly one update request,
\* carrying the mapped new_value, and the attempted counter equals the
\* number of such tasks and the number of update requests.
C1_OneUpdatePerMappedTask ==
  pc = "done" =>
    /\ \A k \in QualifyingTasks :
         /\ Cardinality(RequestsFor(k)) = 1
         /\ \A r \in RequestsFor(k) : putLog[r].newValue = mapping[SelectedValue(tasks[k])]
    /\ tasksAttempted = Cardinality(QualifyingTasks)
    /\ tasksAttempted = Len(putLog)

\* C2: at the end of a run that completes, the succeeded counter equals the
\* number of update requests that received a success response.
C2_SucceededCountsOkResponses ==
  pc = "done" => tasksUpdated = Cardinality(RequestsWithStatus("ok"))

\* C3: an update request that receives a non-success response is counted
\* as attempted (every request issued is counted once) and is not counted
\* as succeeded (only success responses can be).
C3_FailedUpdateCountedNotSucceeded ==
  /\ ~Truthy(updateTaskCustomField("fail"))
  /\ tasksAttempted = Len(putLog)
  /\ tasksUpdated <= Cardinality(RequestsWithStatus("ok"))

C3_Witness ==
  /\ pc = "pause"
  /\ putLog[Len(putLog)].status = "fail"
  /\ tasksAttempted = Len(putLog)
  /\ tasksUpdated = 0

\* The positions whose task has a selected old value that the mapping maps
\* to a new value identifier.
MappedTasks ==
  {k \in 1..Len(tasks) :
     /\ SelectedValue(tasks[k]) \in OldValues
     /\ mapping[SelectedValue(tasks[k])] # ""}

Unset(task) ==
  \/ ~task.has_custom_fields
  \/ task.custom_fields = <<>>
  \/ OldEntries(task) = {}
  \/ SelectedValue(task) = Null

\* C5: the step that processes a task with no custom fields, without the
\* old field, or with no selected value in its old field issues no update
\* request and leaves both counters unchanged.
C5_UnsetTaskNeverUpdated ==
  [][(pc = "loop" /\ i <= Len(tasks) /\ Unset(tasks[i]))
       => (putLog' = putLog /\ tasksAttempted' = tasksAttempted
           /\ tasksUpdated' = tasksUpdated /\ i' = i + 1 /\ pc' = "loop")]_vars

C5_Witness ==
  /\ pc = "done"
  /\ Len(tasks) = 2
  /\ Unset(tasks[1])
  /\ ~Unset(tasks[2])
  /\ Len(putLog) = 1
  /\ putLog[1].index = 2

\* C6: no update request is ever issued for a task whose old field's
\* selected value is not an old_value of the loaded mapping, and the
\* attempted counter counts only tasks whose value is one.
C6_UnmappedValueNeverUpdated ==
  /\ \A r \in 1..Len(putLog) : SelectedValue(tasks[putLog[r].index]) \in OldValues
  /\ tasksAttempted <= Cardinality(QualifyingTasks)

\* The tasks of the pages received so far, in the order of reception.
RECURSIVE PagesConcatenated(_)
PagesConcatenated(log) ==
  IF log = <<>> THEN <<>>
  ELSE PagesConcatenated(SubSeq(log, 1, Len(log) - 1)) \o log[Len(log)].response.data

RECURSIVE PagesLength(_)
PagesLength(log) ==
  IF log = <<>> THEN 0
  ELSE PagesLength(SubSeq(log, 1, Len(log) - 1)) + Len(log[Len(log)].response.data)

\* C7: each successful page is appended, so that the fetcher's list is the
\* concatenation of the pages' task lists in the order the pages were
\* received; and when the fetcher returns after the page without a cursor,
\* the list it returns is that concatenation, its length the sum of the
\* pages' lengths.
C7_ReturnsConcatenationOfPages ==
  [][/\ (pc = "await_page" /\ pc' = "fetch") => fetched' = PagesConcatenated(pageLog')
     /\ (pc = "fetch" /\ pc' = "loop")
          => (tasks' = PagesConcatenated(pageLog) /\ Len(tasks') = PagesLength(pageLog))]_vars

C7_Witness ==
  /\ pc = "fetch"
  /\ url = Null
  /\ Len(pageLog) = 2
  /\ pageLog[1].response.data = <<TaskD>>
  /\ pageLog[2].response.data = <<TaskA>>
  /\ fetched = <<TaskD, TaskA>>

\* A page response carries a continuation cursor.
CarriesCursor(response) == response.status = "ok" /\ response.next_offset \in Cursors

\* C8: the first request carries no offset; each following request carries
\* the cursor of the response immediately before it, so none follows a
\* response without a cursor; and when a response has arrived, a next
\* request is due (the url is set, to that cursor) if and only if the
\* response carried a cursor.
C8_StopsAtFirstPageWithoutCursor ==
  /\ \A k \in 1..Len(pageLog) :
       IF k = 1 THEN pageLog[k].offset = FirstUrl
       ELSE /\ CarriesCursor(pageLog[k - 1].response)
            /\ pageLog[k].offset = pageLog[k - 1].response.next_offset
  /\ (pc = "fetch" /\ pageLog # <<>>) =>
       IF CarriesCursor(pageLog[Len(pageLog)].response)
       THEN url = pageLog[Len(pageLog)].response.next_offset
       ELSE url = Null
  /\ pc = "await_page" => pageLog # <<>> /\ pageLog[Len(pageLog)].response.status = "pending"
  /\ pc \notin {"fetch", "await_page", "caught"} => pageLog = <<>>

C8_Witness ==
  /\ pc = "fetch"
  /\ Len(pageLog) = 2
  /\ pageLog[1].response.next_offset = "y"
  /\ pageLog[2].offset = "y"
  /\ pageLog[2].response.status = "ok"
  /\ url = Null

\* The page requests that received a non-success response or were rejected.
FailedPages == {k \in 1..Len(pageLog) : pageLog[k].response.status \in {"fail", "reject"}}

\* C9: once a page request has received a non-success response, the run is
\* aborted, that request is the last page request, main has received no
\* task list, and no update request has been or will be issued.
C9_FetchFailureAbortsRun ==
  FailedPages # {} =>
    /\ pc = "caught"
    /\ FailedPages = {Len(pageLog)}
    /\ tasks = <<>>
    /\ putLog = <<>>
    /\ tasksAttempted = 0

C9_Witness ==
  /\ pc = "caught"
  /\ Len(pageLog) = 2
  /\ pageLog[1].response.data # <<>>
  /\ pageLog[2].response.status = "fail"
  /\ fetched # <<>>
  /\ tasks = <<>>

\* The custom fields a request sets.
FieldsSet(request) == {p[1] : p \in request.custom_fields}

\* C10: every update request sets exactly one custom field, the new field,
\* so none sets the old field; and no request addresses a task the driver
\* skipped.
C10_WritesOnlyNewField ==
  \A r \in 1..Len(putLog) :
    /\ FieldsSet(putLog[r]) = {NEW_FIELD_GID}
    /\ OLD_FIELD_GID \notin FieldsSet(putLog[r])
    /\ putLog[r].taskGid = tasks[putLog[r].index].gid
    /\ ~Unset(tasks[putLog[r].index])

\* C11: the pause happens once after each update that was answered, with a
\* success or a failure, and before the next task: while a request is
\* awaited or its pause is due, every earlier request has had its pause;
\* between tasks and at the end of a run the pauses are as many as the
\* requests and as the attempted counter, so that skipped tasks add none
\* and two requests are always separated by a pause.
C11_PauseAfterEachAttempt ==
  /\ pc \in {"await_update", "pause"} => pauses = Len(putLog) - 1
  /\ pc \in {"loop", "done"} => (pauses = Len(putLog) /\ pauses = tasksAttempted)
  /\ pauses <= Len(putLog)

C11_Witness ==
  /\ pc = "done"
  /\ pauses = 2
  /\ putLog[1].status = "fail"
  /\ putLog[2].status = "ok"

\* C12: a run that ends in main's error handler (the mapping load or the
\* fetch raised an error) ends with a non-zero exit status, and a run that
\* completes the task loop ends with exit status zero.
C12_ExitStatusTellsFailure ==
  /\ pc = "caught" => ExitStatus # 0
  /\ pc = "done" => ExitStatus = 0

\* The last row of the file that carries the old_value.
LastRowWith(old_value) ==
  CHOOSE k \in 1..Len(records) :
    /\ records[k].old_value = old_value
    /\ \A h \in 1..Len(records) : records[h].old_value = old_value => h <= k

\* C13: the loaded mapping has exactly the old_values of the file as its
\* keys, and a lookup of an old_value yields the new_value of the last row
\* that carries it.
C13_LastRowWins ==
  pc = "loaded" =>
    /\ DOMAIN mapping = {records[k].old_value : k \in 1..Len(records)}
    /\ \A k \in 1..Len(records) :
         GetProperty(mapping, records[k].old_value)
           = records[LastRowWith(records[k].old_value)].new_value

\* C14: when a required configuration value is absent, no page request and
\* no update request is ever issued.
C14_MissingConfigFailsFast ==
  absent # {} => (pageLog = <<>> /\ putLog = <<>> /\ pc \in {"load", "caught"})

\* C15: the update requests follow the fetch order: each addresses the
\* task at a position of the fetched list the loop has reached, the
\* positions strictly increase from one request to the next (so a position
\* gets at most one request, and a task gets two only when it is listed
\* twice), and the loop ends past the last position.
C15_UpdatesInFetchOrder ==
  /\ \A r \in 1..Len(putLog) :
       /\ putLog[r].index \in 1..Len(tasks)
       /\ putLog[r].index <= i
       /\ putLog[r].taskGid = tasks[putLog[r].index].gid
       /\ r > 1 => putLog[r - 1].index < putLog[r].index
  /\ pc = "loop" => \A r \in 1..Len(putLog) : putLog[r].index < i
  /\ pc \in {"loop", "await_update", "pause", "done"} => i \in 1..(Len(tasks) + 1)
  /\ pc = "done" => i = Len(tasks) + 1

C15_Witness ==
  /\ pc = "done"
  /\ tasks = <<TaskA, TaskA>>
  /\ Len(putLog) = 2
  /\ putLog[1].index = 1
  /\ putLog[2].index = 2

\* The run is in main's loop or past it.
InLoopPhase == pc \in {"loop", "await_update", "pause", "done"}

\* C16: the list is fetched once, before any write: a page request is sent
\* or answered only while no update request has been sent; once main has
\* the list, the list never changes and the run never returns to the
\* fetcher; and each request carries the value its task has in that list.
C16_FetchedOnceBeforeWrites ==
  [][/\ (pageLog' # pageLog => (putLog = <<>> /\ putLog' = <<>>))
     /\ (InLoopPhase => (tasks' = tasks /\ mapping' = mapping
                         /\ pc' \in {"loop", "await_update", "pause", "done", "caught"}))
     /\ (putLog' # putLog => (InLoopPhase /\ pageLog' = <<>>))
     /\ ((pc = "loop" /\ pc' = "await_update")
           => putLog'[Len(putLog')].newValue = GetProperty(mapping, SelectedValue(tasks[i])))]_vars

C16_Witness ==
  /\ pc = "done"
  /\ Len(tasks) = 2
  /\ Len(putLog) = 2
  /\ pageLog = <<>>

\* The positions the loop has dealt with.
Processed == {k \in 1..Len(tasks) : k < i \/ pc = "done"}

\* The task carries several entries of the old field.
SeveralOldEntries(task) == Cardinality(OldEntries(task)) >= 2

\* C17: for a task with several entries of the old field the first entry
\* decides: a request for it carries the mapping of the first entry's
\* value; it has its request when that value is mapped to a new value, and
\* none when the first entry has no selected value or an unmapped one,
\* whatever the later entries hold.
C17_FirstOldEntryDecides ==
  \A k \in 1..Len(tasks) :
    SeveralOldEntries(tasks[k]) =>
      /\ \A r \in RequestsFor(k) :
           /\ SelectedValue(tasks[k]) \in OldValues
           /\ putLog[r].newValue = mapping[SelectedValue(tasks[k])]
      /\ (k \in Processed /\ k \in MappedTasks) => RequestsFor(k) # {}
      /\ SelectedValue(tasks[k]) = Null => RequestsFor(k) = {}

C17_Witness ==
  /\ pc = "done"
  /\ tasks = <<TaskH, TaskI>>
  /\ DOMAIN mapping = {"101", "constructor"}
  /\ mapping["101"] = "201"
  /\ mapping["constructor"] = "202"
  /\ Len(putLog) = 1
  /\ putLog[1].index = 2
  /\ putLog[1].newValue = "201"

\* C18: at every point of a run, succeeded <= attempted <= tasks counted
\* with the old field set <= tasks counted with the old field present <=
\* tasks fetched; and when the fetcher has warned that no task has the old
\* field set, no update request is issued.
C18_CountersOrdered ==
  /\ tasksUpdated <= tasksAttempted
  /\ tasksAttempted <= oldFieldWithValueCount
  /\ oldFieldWithValueCount <= oldFieldFoundCount
  /\ oldFieldFoundCount <= Len(tasks)
  /\ warned => (putLog = <<>> /\ tasksAttempted = 0)

C18_Witness ==
  /\ pc = "done"
  /\ Len(tasks) = 2
  /\ oldFieldFoundCount = 2
  /\ oldFieldWithValueCount = 1
  /\ tasksAttempted = 1
  /\ ~warned

\* C19: every update request carries a non-empty new value that is a
\* new_value of the loaded mapping, and a task whose value is mapped to an
\* empty new_value gets no request.
C19_NewValueFromMapping ==
  /\ \A r \in 1..Len(putLog) :
       /\ putLog[r].newValue \notin {"", Undefined, Null}
       /\ putLog[r].newValue \in {mapping[k] : k \in OldValues}
  /\ \A k \in QualifyingTasks :
       mapping[SelectedValue(tasks[k])] = "" => RequestsFor(k) = {}

\* The last page response carried a cursor, or no page has been requested.
MorePagesDue ==
  pageLog = <<>> \/ pageLog[Len(pageLog)].response.next_offset \in Cursors

\* The fetch loop has been left after a page without a cursor.
FetchLoopEnded == pc = "fetch" /\ ~Truthy(url)

\* The run has ended: at the final log of the counters, or in main's error
\* handler after the request of an update was rejected.
RunEnded ==
  \/ pc = "done"
  \/ (pc = "caught" /\ putLog # <<>> /\ putLog[Len(putLog)].status = "reject")

====
